---- MODULE Spec2Model ----
(***************************************************************************)
(* Hydration mismatch warnings of the reconciler                           *)
(* (ReactFiberHydrationWarning.js) and the DOM host config's hydration     *)
(* walker and matcher.                                                     *)
(*                                                                         *)
(* The module under study is compiled twice: with __DEV__ true (the        *)
(* development build) and with __DEV__ false (the production build).  The  *)
(* model keeps one world per build, world[TRUE] and world[FALSE], and      *)
(* drives both with the same calls on the same rendered tree, so that a    *)
(* statement comparing the two builds is a statement about one state.      *)
(* Every operator that models code takes the world it runs in as its first *)
(* argument, which stands for the module scope and the DOM the code reads. *)
(***************************************************************************)
EXTENDS Integers, Sequences, FiniteSets, TLC

\* ------------------------------------------------------------------ bounds
\* Reporting calls per behaviour.
MaxCalls == 2
\* Top-level hydration attempts per behaviour.
MaxAttempts == 2
\* Child nodes of the rendered parent under the walker specification.
MaxWalkChildren == 4
\* Child nodes of the rendered parent under the matcher specification.
MaxMatchChildren == 2
\* Child nodes of the rendered parent under the diff specification.
MaxDiffChildren == 2
\* Items of an array and properties of an object handed to the printer.
MaxItems == 4
\* Characters of a string handed to the printer.
MaxStringLength == 101
\* Fibers of a tree whose return pointers are those the reconciler sets.
MaxFibers == 5
\* Fibers of a tree whose return pointers hold any value.
MaxStaleFibers == 3

\* --------------------------------------------------------------- constants
NULL == 0
ELEMENT_NODE == 1
TEXT_NODE == 3
PROCESSING_INSTRUCTION_NODE == 7
COMMENT_NODE == 8

PRINT_MAX_STRING_LENGTH == 100
PRINT_MAX_ARRAY_ITEMS == 3
PRINT_MAX_OBJECT_ITEMS == 3
PRINT_MAX_PROP_ITEMS == 3
PRINT_ELEMENT_MODE_DEFAULT == 0
PRINT_ELEMENT_MODE_OPENING_TAG_ONLY == 1
PRINT_CHILDREN_VALUE_MODE_DEFAULT == 2
PRINT_CHILDREN_VALUE_MODE_RAW == 4

Builds == BOOLEAN

\* Strings are sequences of characters; CR, LF and NUL name the characters
\* the host normalises.
EmptyText == << >>
\* Texts found in the rendered tree, and texts the render pass expects.
HostTexts == { <<"CR", "LF">>, <<"LF">> }
RenderedTexts == { <<"LF">>, EmptyText }

\* A rendered node: its nodeType, nodeName and nodeValue.
ElementNode(name) == [nodeType |-> ELEMENT_NODE, nodeName |-> name, nodeValue |-> EmptyText]
TextNode(text) == [nodeType |-> TEXT_NODE, nodeName |-> "#text", nodeValue |-> text]
CommentNode == [nodeType |-> COMMENT_NODE, nodeName |-> "#comment", nodeValue |-> EmptyText]
OtherNode == [nodeType |-> PROCESSING_INSTRUCTION_NODE, nodeName |-> "xml", nodeValue |-> EmptyText]

RenderedNodes == { ElementNode("DIV"), TextNode(<<"LF">>), CommentNode, OtherNode }

\* The candidates of the matcher: elements whose names differ in letters or in
\* case only, a text node, a text node with no content, and a comment.
MatchNodes ==
    { ElementNode("DIV"), ElementNode("div"), ElementNode("SPAN"),
      TextNode(<<"LF">>), TextNode(EmptyText), CommentNode }
\* The tags the render pass expects of a candidate.
MatchTypes == { "div", "DIV", "Div", "span" }

SeqsUpTo(S, n) == UNION { [1..k -> S] : k \in 0..n }

\* The rendered trees of the reporting specification: no child, one element,
\* a text behind a comment, and an element behind a text and a processing
\* instruction.
ReportTrees ==
    { << >>,
      << ElementNode("DIV") >>,
      << CommentNode, TextNode(<<"LF">>) >>,
      << TextNode(<<"LF">>), OtherNode, ElementNode("DIV") >> }

\* Props of a logical node, as far as the warnings read them.
PropsSet == [suppressHydrationWarning : BOOLEAN]

\* The work tags the search tells apart, the tag of the root and that of a
\* component, which stands for every tag the search descends through.
HostRoot == "HostRoot"
ClassComponent == "ClassComponent"
HostPortal == "HostPortal"
HostComponent == "HostComponent"
HostText == "HostText"
FiberTags == { ClassComponent, HostPortal, HostComponent, HostText }

VARIABLES
    world,       \* world[dev]: the module scope and the rendered tree of the build with __DEV__ = dev
    attempt,     \* number of the current top-level hydration attempt
    calls,       \* history: one record per reporting call made so far
    last,        \* the most recent call of an entry point, walker or matcher, with its inputs
    enumerated,  \* children enumerated so far by the first-child / next-sibling loop
    fibers,      \* the fiber tree: fibers[f] has the tag and the child, sibling and return pointers of fiber f
    search       \* findHydrationWarningHostInstanceIndex: its arguments, locals and position

vars == <<world, attempt, calls, last, enumerated, fibers, search>>

\* ------------------------------------------------------------- host config

\* instance.nextSibling and parentInstance.firstChild over the parent's childNodes;
\* a node is named by its position in childNodes, NULL is no node.
nextSibling(w, node) == IF node < Len(w.childNodes) THEN node + 1 ELSE NULL
firstChild(w) == IF Len(w.childNodes) > 0 THEN 1 ELSE NULL
nodeTypeOf(w, node) == w.childNodes[node].nodeType

isHydratableInstance_alsoComment(instance) ==
    \/ instance.nodeType = ELEMENT_NODE
    \/ instance.nodeType = TEXT_NODE
    \/ instance.nodeType = COMMENT_NODE

isHydratableInstance(instance) ==
    instance.nodeType = ELEMENT_NODE \/ instance.nodeType = TEXT_NODE

isTextInstance(instance) == instance.nodeType = TEXT_NODE

getTextInstanceText(textInstance) == textInstance.nodeValue

\* The loop shared by getNextHydratableSibling and getFirstHydratableChild:
\* while (node && nodeType !== ELEMENT_NODE && nodeType !== TEXT_NODE) node = node.nextSibling
RECURSIVE skipNonHydratable(_, _)
skipNonHydratable(w, node) ==
    IF /\ node # NULL
       /\ nodeTypeOf(w, node) # ELEMENT_NODE
       /\ nodeTypeOf(w, node) # TEXT_NODE
    THEN skipNonHydratable(w, nextSibling(w, node))
    ELSE node

getNextHydratableSibling_noSkip(w, instance) == nextSibling(w, instance)

getNextHydratableSibling_onceWarned(w, instance) ==
    IF w.didWarnInvalidHydration THEN NULL
    ELSE skipNonHydratable(w, nextSibling(w, instance))

getNextHydratableSibling(w, instance) ==
    skipNonHydratable(w, nextSibling(w, instance))

getFirstHydratableChild_noSkip(w) == firstChild(w)

getFirstHydratableChild(w) == skipNonHydratable(w, firstChild(w))

\* String.prototype.toLowerCase on the tag names the model uses.
toLowerCase(s) ==
    CASE s = "DIV" -> "div"
      [] s = "Div" -> "div"
      [] s = "SPAN" -> "span"
      [] OTHER -> s

canHydrateInstance_caseSensitive(w, instance, type) ==
    IF \/ nodeTypeOf(w, instance) # ELEMENT_NODE
       \/ type # w.childNodes[instance].nodeName
    THEN NULL
    ELSE instance

canHydrateInstance(w, instance, type) ==
    IF \/ nodeTypeOf(w, instance) # ELEMENT_NODE
       \/ toLowerCase(type) # toLowerCase(w.childNodes[instance].nodeName)
    THEN NULL
    ELSE instance

canHydrateTextInstance_anyText(w, instance, text) ==
    IF nodeTypeOf(w, instance) # TEXT_NODE
    THEN NULL
    ELSE instance

canHydrateTextInstance(w, instance, text) ==
    IF text = EmptyText \/ nodeTypeOf(w, instance) # TEXT_NODE
    THEN NULL
    ELSE instance

\* normalizeHTMLTextOrAttributeValue: carriage-return/line-feed pairs and lone
\* carriage returns become a line feed, NUL characters are dropped.
RECURSIVE normalizeHTMLTextOrAttributeValue(_)
normalizeHTMLTextOrAttributeValue(markup) ==
    IF markup = << >> THEN << >>
    ELSE IF Head(markup) = "CR"
         THEN IF Len(markup) > 1 /\ markup[2] = "LF"
              THEN <<"LF">> \o normalizeHTMLTextOrAttributeValue(Tail(Tail(markup)))
              ELSE <<"LF">> \o normalizeHTMLTextOrAttributeValue(Tail(markup))
    ELSE IF Head(markup) = "NUL"
         THEN normalizeHTMLTextOrAttributeValue(Tail(markup))
    ELSE <<Head(markup)>> \o normalizeHTMLTextOrAttributeValue(Tail(markup))

compareTextForHydrationWarning(hostText, renderedValue) ==
    normalizeHTMLTextOrAttributeValue(hostText) = normalizeHTMLTextOrAttributeValue(renderedValue)

comparePropValueForHydrationWarning(hostValue, renderedValue) ==
    normalizeHTMLTextOrAttributeValue(hostValue) = normalizeHTMLTextOrAttributeValue(renderedValue)

\* The hydratable children of the parent in the order the loop
\*   for (n = getFirstHydratableChild(parent); n; n = getNextHydratableSibling(n))
\* visits them.
RECURSIVE hydratableFrom(_, _)
hydratableFrom(w, node) ==
    IF node = NULL THEN << >>
    ELSE <<node>> \o hydratableFrom(w, getNextHydratableSibling(w, node))

hydratableChildren(w) == hydratableFrom(w, getFirstHydratableChild(w))


\* ------------------------------------------------- ReactFiberHydrationWarning

\* Optional values: None is null, Some(x) is x.
None == {}
Some(x) == {x}

\* ---- the pretty-printer

\* A JavaScript string is the sequence of its characters.  A character is
\* named by itself or, where it has no glyph, by NUL, TAB, LF, CR, NBSP and
\* EMDASH.  charCodeAt gives the code unit of a character.
charCodeAt(c) ==
    CASE c = "NUL" -> 0
      [] c = "TAB" -> 9
      [] c = "LF" -> 10
      [] c = "CR" -> 13
      [] c = " " -> 32
      [] c = "\"" -> 34
      [] c = "'" -> 39
      [] c = "." -> 46
      [] c = "<" -> 60
      [] c = "a" -> 97
      [] c = "b" -> 98
      [] c = "c" -> 99
      [] c = "NBSP" -> 160
      [] c = "EMDASH" -> 8212

\* The characters the class \s of a regular expression matches, and the line
\* terminators, which the class . does not match.
WhiteSpace == { "TAB", "LF", "CR", " ", "NBSP" }
LineTerminators == { "LF", "CR" }

\* The spelling of the names and literals the printer writes.
Chars(name) ==
    CASE name = "null" -> <<"n", "u", "l", "l">>
      [] name = "undefined" -> <<"u", "n", "d", "e", "f", "i", "n", "e", "d">>
      [] name = "function " -> <<"f", "u", "n", "c", "t", "i", "o", "n", " ">>
      [] name = "..." -> <<".", ".", ".">>
      [] name = "<...>" -> <<"<", ".", ".", ".", ">">>
      [] name = " ..." -> <<" ", ".", ".", ".">>
      [] name = ", " -> <<",", " ">>
      [] name = ": " -> <<":", " ">>
      [] name = " />" -> <<" ", "/", ">">>
      [] name = "</" -> <<"<", "/">>
      [] name = "div" -> <<"d", "i", "v">>
      [] name = "span" -> <<"s", "p", "a", "n">>
      [] name = "key" -> <<"k", "e", "y">>
      [] name = "title" -> <<"t", "i", "t", "l", "e">>
      [] name = "children" -> <<"c", "h", "i", "l", "d", "r", "e", "n">>
      [] name = "__html" -> <<"_", "_", "h", "t", "m", "l">>
      [] OTHER -> <<name>>

\* A JavaScript value, by its kind.  The entries of an object are its own
\* enumerable properties in enumeration order; an entry with throws set is an
\* accessor whose getter raises.  A revoked value is a revoked Proxy, on which
\* Array.isArray and every property read raise.
Null == [kind |-> "null"]
Undefined == [kind |-> "undefined"]
Number == [kind |-> "number"]
Revoked == [kind |-> "revoked"]
Str(chars) == [kind |-> "string", chars |-> chars]
Arr(items) == [kind |-> "array", items |-> items]
Func(name) == [name |-> name, kind |-> "function"]
Obj(entries) == [kind |-> "object", entries |-> entries]
Elem(type, key, props) == [type |-> type, kind |-> "element", key |-> key, props |-> props]
Entry(key, value) == [key |-> key, value |-> value, throws |-> FALSE]
Getter(key) == [key |-> key, value |-> Undefined, throws |-> TRUE]

\* What a call completes with: the string it returns, or an exception.
Ok(out) == [out |-> out, threw |-> FALSE]
Raise == [out |-> << >>, threw |-> TRUE]
\* a + b, where evaluating either operand may raise.
Cat(a, b) ==
    IF a.threw THEN a
    ELSE IF b.threw THEN b
    ELSE Ok(a.out \o b.out)

\* value[name] on a value whose read does not raise.
Get(value, name) ==
    IF value.kind = "object" /\ \E i \in 1..Len(value.entries) : value.entries[i].key = name
    THEN value.entries[CHOOSE i \in 1..Len(value.entries) : value.entries[i].key = name].value
    ELSE Undefined
\* Whether reading value[name] raises.
GetRaises(value, name) ==
    \/ value.kind = "revoked"
    \/ /\ value.kind = "object"
       /\ \E i \in 1..Len(value.entries) :
             value.entries[i].key = name /\ value.entries[i].throws

isReactElement(value) == value.kind = "element"

clipStringWithEllipsis_orEqual(str, clipAtLength) ==
    SubSeq(str, 1, IF Len(str) < clipAtLength THEN Len(str) ELSE clipAtLength)
    \o (IF Len(str) >= clipAtLength THEN Chars("...") ELSE << >>)

clipStringWithEllipsis(str, clipAtLength) ==
    SubSeq(str, 1, IF Len(str) < clipAtLength THEN Len(str) ELSE clipAtLength)
    \o (IF Len(str) > clipAtLength THEN Chars("...") ELSE << >>)

\* Number.prototype.toString(16).
HexDigits == <<"0", "1", "2", "3", "4", "5", "6", "7", "8", "9", "a", "b", "c", "d", "e", "f">>
RECURSIVE toString16(_)
toString16(n) ==
    IF n < 16 THEN <<HexDigits[n + 1]>>
    ELSE toString16(n \div 16) \o <<HexDigits[(n % 16) + 1]>>

\* The replacement of one character by escapeNonPrintableCharacters.
escapeCharacter(character, quote) ==
    IF character = quote THEN <<"\\", character>>
    ELSE IF character = "LF" THEN <<"\\", "n">>
    ELSE IF character = "TAB" THEN <<"\\", "t">>
    ELSE LET charCode == charCodeAt(character)
         IN  IF charCode >= 32 /\ charCode <= 126 THEN <<character>>
             ELSE LET charCodeHex == toString16(charCode)
                      longhand == Len(charCodeHex) > 2
                      padded == <<"0", "0", "0", "0">> \o charCodeHex
                      digits == IF longhand THEN 4 ELSE 2
                  IN  <<"\\", IF longhand THEN "u" ELSE "x">>
                      \o SubSeq(padded, Len(padded) - digits + 1, Len(padded))

RECURSIVE escapeNonPrintableCharacters(_, _)
escapeNonPrintableCharacters(str, quote) ==
    IF str = << >> THEN << >>
    ELSE escapeCharacter(Head(str), quote) \o escapeNonPrintableCharacters(Tail(str), quote)

printQuotedStringValue(str, quote) ==
    <<quote>>
    \o escapeNonPrintableCharacters(clipStringWithEllipsis(str, PRINT_MAX_STRING_LENGTH), quote)
    \o <<quote>>

\* SPACE_ONLY_RE, NON_EMPTY_WITH_SPACE_FROM_BOTH_SIDES_RE and
\* ASCII_PRINTABLE_EXCEPT_TAG_BRACKETS_RE tested on str.
SPACE_ONLY_RE(str) == \A i \in 1..Len(str) : str[i] \in WhiteSpace
NON_EMPTY_WITH_SPACE_FROM_BOTH_SIDES_RE(str) ==
    \E i \in 1..Len(str), j \in 1..Len(str) :
        /\ i < j /\ j < Len(str)
        /\ \A k \in 1..i : str[k] \in WhiteSpace
        /\ \A k \in (i + 1)..j : str[k] \notin LineTerminators
        /\ \A k \in (j + 1)..Len(str) : str[k] \in WhiteSpace
ASCII_PRINTABLE_EXCEPT_TAG_BRACKETS_RE(str) ==
    \A i \in 1..Len(str) :
        /\ charCodeAt(str[i]) >= 32 /\ charCodeAt(str[i]) <= 126
        /\ charCodeAt(str[i]) \notin {60, 62}

shouldPrintStringAsRawUnescapedText(str) ==
    /\ ~SPACE_ONLY_RE(str)
    /\ ~NON_EMPTY_WITH_SPACE_FROM_BOTH_SIDES_RE(str)
    /\ ASCII_PRINTABLE_EXCEPT_TAG_BRACKETS_RE(str)

\* mode & flag, for a flag that is a power of two.
HasFlag(mode, flag) == (mode \div flag) % 2 = 1

REACT_SPECIFIC_PROPS ==
    { "key", "ref", "__self", "__source", "children", "dangerouslySetInnerHTML",
      "suppressContentEditableWarning", "suppressHydrationWarning" }

\* isDangerouslySetInnerHTMLString, and whether evaluating it raises.
isDangerouslySetInnerHTMLString(value) ==
    value.kind = "object" /\ Get(value, "__html").kind = "string"
isDangerouslySetInnerHTMLStringRaises(value) == GetRaises(value, "__html")

RECURSIVE printValue(_)
RECURSIVE printReactElement(_)

printCurlyValue(value) == Cat(Ok(<<"{">>), Cat(printValue(value), Ok(<<"}">>)))

printCurlyOrQuotedStringValue(value) ==
    IF value.kind = "string"
    THEN IF /\ value.chars = << >> \/ shouldPrintStringAsRawUnescapedText(value.chars)
            /\ \A i \in 1..Len(value.chars) : value.chars[i] # "\""
         THEN Ok(printQuotedStringValue(value.chars, "\""))
         ELSE Ok(<<"{">> \o printQuotedStringValue(value.chars, "'") \o <<"}">>)
    ELSE printCurlyValue(value)

printChildrenValueInner(children, printChildrenMode) ==
    IF HasFlag(printChildrenMode, PRINT_CHILDREN_VALUE_MODE_RAW) /\ children.kind = "null"
    THEN Ok(<< >>)
    ELSE IF /\ HasFlag(printChildrenMode, PRINT_CHILDREN_VALUE_MODE_RAW)
            /\ children.kind = "string"
            /\ shouldPrintStringAsRawUnescapedText(children.chars)
    THEN Ok(clipStringWithEllipsis(children.chars, PRINT_MAX_STRING_LENGTH))
    ELSE IF children.kind = "revoked" THEN Raise
    ELSE IF isReactElement(children) THEN printReactElement(children)
    ELSE printCurlyValue(children)

\* children.map(child => printChildrenValueInner(child, mode)).join('')
RECURSIVE printChildrenValueMap(_, _)
printChildrenValueMap(children, printChildrenMode) ==
    IF children = << >> THEN Ok(<< >>)
    ELSE Cat(printChildrenValueInner(Head(children), printChildrenMode),
             printChildrenValueMap(Tail(children), printChildrenMode))

printChildrenValue(children, printChildrenMode) ==
    IF children.kind = "revoked" THEN Raise
    ELSE IF children.kind = "array"
    THEN LET ic == Len(children.items)
             \* the loop inspects the positions ic - 1 down to 1, counted from 0
             isAllStrings == /\ ic > 0
                             /\ \A k \in 1..(ic - 1) : children.items[k + 1].kind = "string"
         IN  IF isAllStrings THEN printCurlyValue(children)
             ELSE printChildrenValueMap(children.items, printChildrenMode)
    ELSE printChildrenValueInner(children, printChildrenMode)

printChildrenHTML(instanceHTML) ==
    Ok(clipStringWithEllipsis(Get(instanceHTML, "__html").chars, PRINT_MAX_STRING_LENGTH))

\* The loop of printElementOpeningTag from the entry at position k on, i
\* properties having been printed.
RECURSIVE printElementOpeningTagLoop(_, _, _)
printElementOpeningTagLoop(entries, k, i) ==
    IF k > Len(entries) THEN Ok(<< >>)
    ELSE IF entries[k].key \in REACT_SPECIFIC_PROPS
    THEN printElementOpeningTagLoop(entries, k + 1, i)
    ELSE IF i >= PRINT_MAX_PROP_ITEMS THEN Ok(Chars(" ..."))
    ELSE Cat(Ok(<<" ">> \o Chars(entries[k].key) \o <<"=">>),
             Cat(IF entries[k].throws THEN Raise
                 ELSE printCurlyOrQuotedStringValue(entries[k].value),
                 printElementOpeningTagLoop(entries, k + 1, i + 1)))

printElementOpeningTag(instanceDisplayName, instanceProps, selfClosing) ==
    Cat(Ok(<<"<">> \o instanceDisplayName),
        Cat(IF instanceProps.kind = "object"
            THEN printElementOpeningTagLoop(instanceProps.entries, 1, 0)
            ELSE Ok(<< >>),
            Ok(IF selfClosing THEN Chars(" />") ELSE <<">">>)))

printElementClosingTag(instanceDisplayName) == Chars("</") \o instanceDisplayName \o <<">">>

printElementChildren(instanceProps, instanceTextOrHTML) ==
    LET hasProps == instanceProps.kind = "object"
        children == Get(instanceProps, "children")
        html == Get(instanceProps, "dangerouslySetInnerHTML")
    IN  IF hasProps /\ GetRaises(instanceProps, "children") THEN Raise
        ELSE IF hasProps /\ children.kind \notin {"null", "undefined"}
        THEN printChildrenValue(children, PRINT_CHILDREN_VALUE_MODE_RAW)
        ELSE IF hasProps /\ ( \/ GetRaises(instanceProps, "dangerouslySetInnerHTML")
                              \/ isDangerouslySetInnerHTMLStringRaises(html) )
        THEN Raise
        ELSE IF hasProps /\ isDangerouslySetInnerHTMLString(html) THEN printChildrenHTML(html)
        ELSE IF instanceTextOrHTML.kind = "string"
        THEN printChildrenValue(instanceTextOrHTML, PRINT_CHILDREN_VALUE_MODE_RAW)
        ELSE IF isDangerouslySetInnerHTMLStringRaises(instanceTextOrHTML) THEN Raise
        ELSE IF isDangerouslySetInnerHTMLString(instanceTextOrHTML)
        THEN printChildrenHTML(instanceTextOrHTML)
        ELSE IF instanceTextOrHTML.kind \notin {"null", "undefined"}
        THEN printCurlyValue(instanceTextOrHTML)
        ELSE Ok(<< >>)

\* instanceDisplayName is Null or a string value.
printElementOrText(instanceDisplayName, instanceProps, instanceTextOrHTML, printElementMode, printChildrenMode) ==
    IF /\ instanceDisplayName.kind # "null"
       /\ HasFlag(printElementMode, PRINT_ELEMENT_MODE_OPENING_TAG_ONLY)
    THEN printElementOpeningTag(instanceDisplayName.chars, instanceProps, FALSE)
    ELSE IF instanceDisplayName.kind # "null"
    THEN LET printedChildren == printElementChildren(instanceProps, instanceTextOrHTML)
         IN  IF printedChildren.threw THEN printedChildren
             ELSE IF printedChildren.out # << >>
             THEN Cat(printElementOpeningTag(instanceDisplayName.chars, instanceProps, FALSE),
                      Cat(printedChildren,
                          Ok(printElementClosingTag(instanceDisplayName.chars))))
             ELSE printElementOpeningTag(instanceDisplayName.chars, instanceProps, TRUE)
    ELSE IF isDangerouslySetInnerHTMLStringRaises(instanceTextOrHTML) THEN Raise
    ELSE IF isDangerouslySetInnerHTMLString(instanceTextOrHTML)
    THEN printChildrenHTML(instanceTextOrHTML)
    ELSE printChildrenValue(instanceTextOrHTML, printChildrenMode)

\* value.type holds the name getComponentName gives for it, Null when it gives
\* none.  Spreading value.props reads every property of it.
printReactElement(value) ==
    LET instanceDisplayName == value.type
        hasKey == value.key.kind \notin {"null", "undefined"}
        hasProps == value.props.kind = "object"
        instanceProps == IF hasProps
                         THEN IF hasKey
                              THEN Obj(<<Entry("key", value.key)>> \o value.props.entries)
                              ELSE value.props
                         ELSE Null
    IN  IF /\ hasProps /\ hasKey
           /\ \E i \in 1..Len(value.props.entries) : value.props.entries[i].throws
        THEN Raise
        ELSE IF instanceDisplayName.kind = "null" THEN Ok(Chars("<...>"))
        ELSE printElementOrText(instanceDisplayName, instanceProps, Null,
                                PRINT_ELEMENT_MODE_DEFAULT, PRINT_CHILDREN_VALUE_MODE_DEFAULT)

\* The loop of printValue over an array, from the item at index i on.
RECURSIVE printValueArrayLoop_offByOne(_, _)
printValueArrayLoop_offByOne(items, i) ==
    IF i >= Len(items) THEN Ok(<< >>)
    ELSE Cat(Ok(IF i > 0 THEN Chars(", ") ELSE << >>),
             IF i > PRINT_MAX_ARRAY_ITEMS THEN Ok(Chars("..."))
             ELSE Cat(printValue(items[i + 1]), printValueArrayLoop_offByOne(items, i + 1)))

RECURSIVE printValueArrayLoop(_, _)
printValueArrayLoop(items, i) ==
    IF i >= Len(items) THEN Ok(<< >>)
    ELSE Cat(Ok(IF i > 0 THEN Chars(", ") ELSE << >>),
             IF i >= PRINT_MAX_ARRAY_ITEMS THEN Ok(Chars("..."))
             ELSE Cat(printValue(items[i + 1]), printValueArrayLoop(items, i + 1)))

\* The loop of printValue over the keys of an object, from the key at index i on.
RECURSIVE printValueObjectLoop(_, _)
printValueObjectLoop(entries, i) ==
    IF i >= Len(entries) THEN Ok(<< >>)
    ELSE Cat(Ok(IF i > 0 THEN Chars(", ") ELSE << >>),
             IF i >= PRINT_MAX_OBJECT_ITEMS THEN Ok(Chars("..."))
             ELSE IF entries[i + 1].throws THEN Raise
             ELSE Cat(Cat(printValue(Str(Chars(entries[i + 1].key))), Ok(Chars(": "))),
                      Cat(printValue(entries[i + 1].value),
                          printValueObjectLoop(entries, i + 1))))

\* The try block of printValue.
printValue_try(value) ==
    CASE value.kind = "null" -> Ok(Chars("null"))
      [] value.kind = "undefined" -> Ok(Chars("undefined"))
      [] value.kind = "string" ->
            Ok(<<"'">> \o clipStringWithEllipsis(value.chars, PRINT_MAX_STRING_LENGTH) \o <<"'">>)
      [] value.kind = "revoked" -> Raise
      [] value.kind = "array" ->
            Cat(Ok(<<"[">>), Cat(printValueArrayLoop(value.items, 0), Ok(<<"]">>)))
      [] value.kind = "element" -> printReactElement(value)
      [] value.kind = "function" ->
            IF value.name.kind = "string"
            THEN Ok(clipStringWithEllipsis(Chars("function ") \o value.name.chars,
                                           PRINT_MAX_STRING_LENGTH))
            ELSE Ok(Chars("..."))
      [] value.kind = "object" ->
            Cat(Ok(<<"{">>), Cat(printValueObjectLoop(value.entries, 0), Ok(<<"}">>)))
      [] OTHER -> Ok(Chars("..."))

printValue_uncaught(value) == printValue_try(value)

printValue(value) ==
    LET completion == printValue_try(value)
    IN  IF completion.threw THEN Ok(Chars("...")) ELSE completion

\* shared/warning called with a false condition: the sink receives the message.
warning(w, format, args) ==
    [w EXCEPT !.warnings = Append(@, [format |-> format, args |-> args])]

addedLines_evenForNull(insertedInstanceDisplayName, insertedText) ==
    << [text |-> insertedText, status |-> "added", tag |-> insertedInstanceDisplayName] >>

\* The insert() closure of getHydrationDiff: the added line, or nothing when the
\* expected node is null (no tag, and the text is not a string).
addedLines(insertedInstanceDisplayName, insertedText) ==
    IF \/ (insertedInstanceDisplayName # None /\ insertedInstanceDisplayName # Some(""))
       \/ insertedText # None
    THEN << [text |-> insertedText, status |-> "added", tag |-> insertedInstanceDisplayName] >>
    ELSE << >>

RECURSIVE diffChildren_insertLast(_, _, _, _, _, _)
diffChildren_insertLast(children, index, childInstanceDeletedIndex, childInstanceInsertedIndex, added, inserted) ==
    IF index >= Len(children)
    THEN added
    ELSE <<[node |-> children[index + 1],
            status |-> IF index = childInstanceDeletedIndex THEN "removed" ELSE "unchanged"]>>
         \o diffChildren_insertLast(children, index + 1, childInstanceDeletedIndex,
                                    childInstanceInsertedIndex, added, inserted)

RECURSIVE diffChildren_insertAgain(_, _, _, _, _, _)
diffChildren_insertAgain(children, index, childInstanceDeletedIndex, childInstanceInsertedIndex, added, inserted) ==
    IF index >= Len(children)
    THEN added
    ELSE <<[node |-> children[index + 1],
            status |-> IF index = childInstanceDeletedIndex THEN "removed" ELSE "unchanged"]>>
         \o (IF index = childInstanceInsertedIndex THEN added ELSE << >>)
         \o diffChildren_insertAgain(children, index + 1, childInstanceDeletedIndex,
                                     childInstanceInsertedIndex, added, inserted)

RECURSIVE diffChildren_insertBefore(_, _, _, _, _, _)
diffChildren_insertBefore(children, index, childInstanceDeletedIndex, childInstanceInsertedIndex, added, inserted) ==
    IF index >= Len(children)
    THEN IF inserted THEN << >> ELSE added
    ELSE LET line == [node |-> children[index + 1],
                      status |-> IF index = childInstanceDeletedIndex THEN "removed" ELSE "unchanged"]
             here == index = childInstanceInsertedIndex /\ ~inserted
         IN  (IF here THEN added ELSE << >>)
             \o <<line>>
             \o diffChildren_insertBefore(children, index + 1, childInstanceDeletedIndex,
                             childInstanceInsertedIndex, added, inserted \/ (here /\ added # << >>))

\* The loop of getHydrationDiff over the hydratable children from position index
\* (counted from 0) of children on: a removed or unchanged line per child, the
\* added line right after the child at childInstanceInsertedIndex.
RECURSIVE diffChildren(_, _, _, _, _, _)
diffChildren(children, index, childInstanceDeletedIndex, childInstanceInsertedIndex, added, inserted) ==
    IF index >= Len(children)
    THEN IF inserted THEN << >> ELSE added
    ELSE LET line == [node |-> children[index + 1],
                      status |-> IF index = childInstanceDeletedIndex THEN "removed" ELSE "unchanged"]
             here == index = childInstanceInsertedIndex /\ ~inserted
         IN  <<line>>
             \o (IF here THEN added ELSE << >>)
             \o diffChildren(children, index + 1, childInstanceDeletedIndex,
                             childInstanceInsertedIndex, added, inserted \/ (here /\ added # << >>))

getHydrationDiff_deletedOffByOne(w, childInstanceDeletedIndex, childInstanceInsertedIndex, insertedInstanceDisplayName, insertedText) ==
    << [status |-> "unchanged", open |-> "parent"] >>
    \o diffChildren(hydratableChildren(w), 0, childInstanceDeletedIndex + 1, childInstanceInsertedIndex,
                    addedLines(insertedInstanceDisplayName, insertedText), FALSE)
    \o << [status |-> "unchanged", close |-> "parent"] >>

\* The diff as its lines, first to last: the parent's opening tag, the
\* children, the parent's closing tag.
getHydrationDiff(w, childInstanceDeletedIndex, childInstanceInsertedIndex, insertedInstanceDisplayName, insertedText) ==
    << [status |-> "unchanged", open |-> "parent"] >>
    \o diffChildren(hydratableChildren(w), 0, childInstanceDeletedIndex, childInstanceInsertedIndex,
                    addedLines(insertedInstanceDisplayName, insertedText), FALSE)
    \o << [status |-> "unchanged", close |-> "parent"] >>

warnForTextDifference_latchBeforeCompare(w, hostText, renderedValue) ==
    IF w.didWarnInvalidHydration THEN w
    ELSE IF compareTextForHydrationWarning(hostText, renderedValue)
         THEN [w EXCEPT !.didWarnInvalidHydration = TRUE]
         ELSE warning([w EXCEPT !.didWarnInvalidHydration = TRUE],
                      "Text content did not match. Server: %s Client: %s",
                      <<hostText, renderedValue>>)

warnForTextDifference(w, hostText, renderedValue) ==
    IF w.didWarnInvalidHydration THEN w
    ELSE IF compareTextForHydrationWarning(hostText, renderedValue) THEN w
    ELSE warning([w EXCEPT !.didWarnInvalidHydration = TRUE],
                 "Text content did not match. Server: %s Client: %s",
                 <<hostText, renderedValue>>)

warnForPropDifference_noCompare(w, propName, hostValue, renderedValue) ==
    IF w.didWarnInvalidHydration THEN w
    ELSE warning([w EXCEPT !.didWarnInvalidHydration = TRUE],
                 "Prop %s did not match. Server: %s Client: %s",
                 <<propName, hostValue, renderedValue>>)

warnForPropDifference_latchBeforeCompare(w, propName, hostValue, renderedValue) ==
    IF w.didWarnInvalidHydration THEN w
    ELSE IF comparePropValueForHydrationWarning(hostValue, renderedValue)
         THEN [w EXCEPT !.didWarnInvalidHydration = TRUE]
         ELSE warning([w EXCEPT !.didWarnInvalidHydration = TRUE],
                      "Prop %s did not match. Server: %s Client: %s",
                      <<propName, hostValue, renderedValue>>)

warnForPropDifference(w, propName, hostValue, renderedValue) ==
    IF w.didWarnInvalidHydration THEN w
    ELSE IF comparePropValueForHydrationWarning(hostValue, renderedValue) THEN w
    ELSE warning([w EXCEPT !.didWarnInvalidHydration = TRUE],
                 "Prop %s did not match. Server: %s Client: %s",
                 <<propName, hostValue, renderedValue>>)

warnForExtraAttributes_noLatchCheck(w, attributeNames) ==
    warning([w EXCEPT !.didWarnInvalidHydration = TRUE],
            "Extra attributes from the server: %s", <<attributeNames>>)

warnForExtraAttributes(w, attributeNames) ==
    IF w.didWarnInvalidHydration THEN w
    ELSE warning([w EXCEPT !.didWarnInvalidHydration = TRUE],
                 "Extra attributes from the server: %s", <<attributeNames>>)

\* Position of child among the hydratable children, counted from 0; -1 when the
\* loop ends without meeting it.
RECURSIVE indexAmong(_, _, _)
indexAmong(children, child, index) ==
    IF index >= Len(children) THEN -1
    ELSE IF children[index + 1] = child THEN index
    ELSE indexAmong(children, child, index + 1)

warnForDeletedHydratableInstance_replacingChild(w, child) ==
    IF ~w.DEV THEN w
    ELSE IF w.didWarnInvalidHydration THEN w
    ELSE LET childInstanceDeletedIndex == indexAmong(hydratableChildren(w), child, 0)
             diff == getHydrationDiff(w, childInstanceDeletedIndex, -1, None, None)
             w1 == [w EXCEPT !.didWarnInvalidHydration = TRUE, !.diffs = @ + 1,
                             !.childNodes[child] = CommentNode]
         IN  warning(w1, "Did not expect server HTML to contain a %s in %s.%s",
                     <<child, "parent", diff>>)

warnForDeletedHydratableInstance(w, child) ==
    IF ~w.DEV THEN w
    ELSE IF w.didWarnInvalidHydration THEN w
    ELSE LET childInstanceDeletedIndex == indexAmong(hydratableChildren(w), child, 0)
             diff == getHydrationDiff(w, childInstanceDeletedIndex, -1, None, None)
             w1 == [w EXCEPT !.didWarnInvalidHydration = TRUE, !.diffs = @ + 1]
         IN  IF isTextInstance(w.childNodes[child])
             THEN warning(w1, "Did not expect server HTML to contain the text node %s in %s.%s",
                          <<child, "parent", diff>>)
             ELSE warning(w1, "Did not expect server HTML to contain a %s in %s.%s",
                          <<child, "parent", diff>>)

warnForInsertedHydratedInstance_latchLeftOpen(w, tag, hydrationWarningHostInstanceIndex, hydrationWarningHostInstanceIsReplaced) ==
    IF ~w.DEV THEN w
    ELSE IF w.didWarnInvalidHydration THEN w
    ELSE warning([w EXCEPT !.diffs = @ + 1],
                 "Expected server HTML to contain a matching %s in %s.%s",
                 << tag, "parent",
                    getHydrationDiff(w,
                        IF hydrationWarningHostInstanceIsReplaced
                        THEN hydrationWarningHostInstanceIndex ELSE -1,
                        hydrationWarningHostInstanceIndex, Some(tag), None) >>)

warnForInsertedHydratedInstance(w, tag, hydrationWarningHostInstanceIndex, hydrationWarningHostInstanceIsReplaced) ==
    IF ~w.DEV THEN w
    ELSE IF w.didWarnInvalidHydration THEN w
    ELSE warning([w EXCEPT !.didWarnInvalidHydration = TRUE, !.diffs = @ + 1],
                 "Expected server HTML to contain a matching %s in %s.%s",
                 << tag, "parent",
                    getHydrationDiff(w,
                        IF hydrationWarningHostInstanceIsReplaced
                        THEN hydrationWarningHostInstanceIndex ELSE -1,
                        hydrationWarningHostInstanceIndex, Some(tag), None) >>)

warnForInsertedHydratedTextInstance_emptyToo(w, text, hydrationWarningHostInstanceIndex, hydrationWarningHostInstanceIsReplaced) ==
    IF ~w.DEV THEN w
    ELSE IF w.didWarnInvalidHydration THEN w
    ELSE warning([w EXCEPT !.didWarnInvalidHydration = TRUE, !.diffs = @ + 1],
                 "Expected server HTML to contain a matching text node for %s in %s.%s",
                 << text, "parent",
                    getHydrationDiff(w,
                        IF hydrationWarningHostInstanceIsReplaced
                        THEN hydrationWarningHostInstanceIndex ELSE -1,
                        hydrationWarningHostInstanceIndex, None, Some(text)) >>)

warnForInsertedHydratedTextInstance(w, text, hydrationWarningHostInstanceIndex, hydrationWarningHostInstanceIsReplaced) ==
    IF ~w.DEV THEN w
    ELSE IF text = EmptyText THEN w
    ELSE IF w.didWarnInvalidHydration THEN w
    ELSE warning([w EXCEPT !.didWarnInvalidHydration = TRUE, !.diffs = @ + 1],
                 "Expected server HTML to contain a matching text node for %s in %s.%s",
                 << text, "parent",
                    getHydrationDiff(w,
                        IF hydrationWarningHostInstanceIsReplaced
                        THEN hydrationWarningHostInstanceIndex ELSE -1,
                        hydrationWarningHostInstanceIndex, None, Some(text)) >>)

\* ---- the exported entry points

didNotMatchHydratedContainerTextInstance_noDevCheck(w, textInstance, renderedText) ==
    warnForTextDifference(w, getTextInstanceText(textInstance), renderedText)

didNotMatchHydratedContainerTextInstance(w, textInstance, renderedText) ==
    IF w.DEV
    THEN warnForTextDifference(w, getTextInstanceText(textInstance), renderedText)
    ELSE w

didNotMatchHydratedTextInstance(w, parentProps, textInstance, renderedText) ==
    IF w.DEV /\ parentProps.suppressHydrationWarning # TRUE
    THEN warnForTextDifference(w, getTextInstanceText(textInstance), renderedText)
    ELSE w

didNotMatchHydratedChildrenPropValue(w, props, hostChildrenText, renderedChildrenValue) ==
    IF w.DEV /\ props.suppressHydrationWarning # TRUE
    THEN warnForTextDifference(w, hostChildrenText, renderedChildrenValue)
    ELSE w

didNotMatchHydratedPropValue(w, props, propKey, hostValue, renderedValue) ==
    IF w.DEV /\ props.suppressHydrationWarning # TRUE
    THEN warnForPropDifference(w, propKey, hostValue, renderedValue)
    ELSE w

didNotMatchHydratedPropsHostInstanceHasExtraAttributes(w, props, attributeNames) ==
    IF w.DEV /\ props.suppressHydrationWarning # TRUE
    THEN warnForExtraAttributes(w, attributeNames)
    ELSE w

didNotHydrateContainerInstance(w, instance) ==
    IF w.DEV THEN warnForDeletedHydratableInstance(w, instance) ELSE w

didNotHydrateInstance_noSuppressCheck(w, parentProps, instance) ==
    IF w.DEV THEN warnForDeletedHydratableInstance(w, instance) ELSE w

didNotHydrateInstance(w, parentProps, instance) ==
    IF w.DEV /\ parentProps.suppressHydrationWarning # TRUE
    THEN warnForDeletedHydratableInstance(w, instance)
    ELSE w

didNotFindHydratableContainerInstance(w, type, hydrationWarningHostInstanceIndex, hydrationWarningHostInstanceIsReplaced) ==
    IF w.DEV
    THEN warnForInsertedHydratedInstance(w, type, hydrationWarningHostInstanceIndex,
                                         hydrationWarningHostInstanceIsReplaced)
    ELSE w

didNotFindHydratableContainerTextInstance(w, text, hydrationWarningHostInstanceIndex, hydrationWarningHostInstanceIsReplaced) ==
    IF w.DEV
    THEN warnForInsertedHydratedTextInstance(w, text, hydrationWarningHostInstanceIndex,
                                             hydrationWarningHostInstanceIsReplaced)
    ELSE w

didNotFindHydratableInstance(w, parentProps, type, hydrationWarningHostInstanceIndex, hydrationWarningHostInstanceIsReplaced) ==
    IF w.DEV /\ parentProps.suppressHydrationWarning # TRUE
    THEN warnForInsertedHydratedInstance(w, type, hydrationWarningHostInstanceIndex,
                                         hydrationWarningHostInstanceIsReplaced)
    ELSE w

didNotFindHydratableTextInstance(w, parentProps, text, hydrationWarningHostInstanceIndex, hydrationWarningHostInstanceIsReplaced) ==
    IF w.DEV /\ parentProps.suppressHydrationWarning # TRUE
    THEN warnForInsertedHydratedTextInstance(w, text, hydrationWarningHostInstanceIndex,
                                             hydrationWarningHostInstanceIsReplaced)
    ELSE w


\* ------------------------------------------------------------ state machine

Tags == {"div"}
AttributeNameSets == { {"data-x"} }
PropKeys == {"title"}

NewWorld(dev, tree) ==
    [childNodes |-> tree, didWarnInvalidHydration |-> FALSE, warnings |-> << >>,
     DEV |-> dev, diffs |-> 0]

Idle == [pc |-> "idle", nextHydratableInstance |-> NULL, visited |-> << >>]

\* No call of findHydrationWarningHostInstanceIndex is under way.
NotSearching == [pc |-> "idle"]

InitWith(trees) ==
    /\ \E tree \in trees : world = [dev \in Builds |-> NewWorld(dev, tree)]
    /\ attempt = 1
    /\ calls = << >>
    /\ last = [op |-> "none"]
    /\ enumerated = Idle
    /\ fibers = << >>
    /\ search = NotSearching

\* Module evaluation: the latch is false, nothing has been reported.
Init == InitWith(ReportTrees)

\* The rendered tree, which is the same in the two builds unless a call changed it.
Tree == world[TRUE].childNodes
ChildIds == 1..Len(Tree)
HydratableIds == { n \in ChildIds : Tree[n].nodeType \in {ELEMENT_NODE, TEXT_NODE} }

\* Whether two values differ after the host's normalisation.
Differ(a, b) == normalizeHTMLTextOrAttributeValue(a) # normalizeHTMLTextOrAttributeValue(b)

\* One call of an exported entry point, made in both builds: op and args name
\* the call, reportable says whether its inputs describe a mismatch to report
\* (suppression flag not set, values differing after normalisation, expected
\* text not empty), after is the pair of worlds the entry point returns.  The
\* history records, per build, whether the call emitted a warning and whether
\* it changed anything at all.
Report(op, args, reportable, after) ==
    /\ Len(calls) < MaxCalls
    /\ world' = after
    /\ calls' = Append(calls,
            [attempt |-> attempt, reportable |-> reportable,
             emitted |-> [dev \in Builds |->
                             Len(after[dev].warnings) > Len(world[dev].warnings)],
             changed |-> [dev \in Builds |-> after[dev] # world[dev]]])
    /\ last' = [args |-> args, op |-> op]
    /\ UNCHANGED <<attempt, enumerated, fibers, search>>

DidNotMatchHydratedContainerTextInstance ==
    \E hostText \in HostTexts, renderedText \in RenderedTexts :
        Report("didNotMatchHydratedContainerTextInstance",
               [suppress |-> FALSE, host |-> hostText, rendered |-> renderedText],
               Differ(hostText, renderedText),
               [dev \in Builds |-> didNotMatchHydratedContainerTextInstance(
                                       world[dev], TextNode(hostText), renderedText)])

DidNotMatchHydratedTextInstance ==
    \E parentProps \in PropsSet, hostText \in HostTexts, renderedText \in RenderedTexts :
        Report("didNotMatchHydratedTextInstance",
               [suppress |-> parentProps.suppressHydrationWarning,
                host |-> hostText, rendered |-> renderedText],
               ~parentProps.suppressHydrationWarning /\ Differ(hostText, renderedText),
               [dev \in Builds |-> didNotMatchHydratedTextInstance(
                                       world[dev], parentProps, TextNode(hostText), renderedText)])

DidNotMatchHydratedChildrenPropValue ==
    \E props \in PropsSet, hostChildrenText \in HostTexts, renderedChildrenValue \in RenderedTexts :
        Report("didNotMatchHydratedChildrenPropValue",
               [suppress |-> props.suppressHydrationWarning,
                host |-> hostChildrenText, rendered |-> renderedChildrenValue],
               ~props.suppressHydrationWarning /\ Differ(hostChildrenText, renderedChildrenValue),
               [dev \in Builds |-> didNotMatchHydratedChildrenPropValue(
                                       world[dev], props, hostChildrenText, renderedChildrenValue)])

DidNotMatchHydratedPropValue ==
    \E props \in PropsSet, propKey \in PropKeys, hostValue \in HostTexts, renderedValue \in RenderedTexts :
        Report("didNotMatchHydratedPropValue",
               [suppress |-> props.suppressHydrationWarning,
                host |-> hostValue, rendered |-> renderedValue],
               ~props.suppressHydrationWarning /\ Differ(hostValue, renderedValue),
               [dev \in Builds |-> didNotMatchHydratedPropValue(
                                       world[dev], props, propKey, hostValue, renderedValue)])

DidNotMatchHydratedPropsHostInstanceHasExtraAttributes ==
    \E props \in PropsSet, attributeNames \in AttributeNameSets :
        Report("didNotMatchHydratedPropsHostInstanceHasExtraAttributes",
               [suppress |-> props.suppressHydrationWarning],
               ~props.suppressHydrationWarning,
               [dev \in Builds |-> didNotMatchHydratedPropsHostInstanceHasExtraAttributes(
                                       world[dev], props, attributeNames)])

DidNotHydrateContainerInstance ==
    \E instance \in HydratableIds :
        Report("didNotHydrateContainerInstance",
               [instance |-> instance, suppress |-> FALSE],
               TRUE,
               [dev \in Builds |-> didNotHydrateContainerInstance(world[dev], instance)])

DidNotHydrateInstance ==
    \E parentProps \in PropsSet, instance \in HydratableIds :
        Report("didNotHydrateInstance",
               [instance |-> instance, suppress |-> parentProps.suppressHydrationWarning],
               ~parentProps.suppressHydrationWarning,
               [dev \in Builds |-> didNotHydrateInstance(world[dev], parentProps, instance)])

\* The position and replaced flag the reconciler passes: a position among the
\* hydratable children or right after the last; replaced only at an existing child.
InsertPositions ==
    { p \in (0..Cardinality(HydratableIds)) \X BOOLEAN :
        p[2] => p[1] < Cardinality(HydratableIds) }

DidNotFindHydratableContainerInstance ==
    \E type \in Tags, p \in InsertPositions :
        Report("didNotFindHydratableContainerInstance",
               [suppress |-> FALSE],
               TRUE,
               [dev \in Builds |-> didNotFindHydratableContainerInstance(
                                       world[dev], type, p[1], p[2])])

DidNotFindHydratableContainerTextInstance ==
    \E text \in RenderedTexts, p \in InsertPositions :
        Report("didNotFindHydratableContainerTextInstance",
               [text |-> text, suppress |-> FALSE],
               text # EmptyText,
               [dev \in Builds |-> didNotFindHydratableContainerTextInstance(
                                       world[dev], text, p[1], p[2])])

DidNotFindHydratableInstance ==
    \E parentProps \in PropsSet, type \in Tags, p \in InsertPositions :
        Report("didNotFindHydratableInstance",
               [suppress |-> parentProps.suppressHydrationWarning],
               ~parentProps.suppressHydrationWarning,
               [dev \in Builds |-> didNotFindHydratableInstance(
                                       world[dev], parentProps, type, p[1], p[2])])

DidNotFindHydratableTextInstance ==
    \E parentProps \in PropsSet, text \in RenderedTexts, p \in InsertPositions :
        Report("didNotFindHydratableTextInstance",
               [text |-> text, suppress |-> parentProps.suppressHydrationWarning],
               ~parentProps.suppressHydrationWarning /\ text # EmptyText,
               [dev \in Builds |-> didNotFindHydratableTextInstance(
                                       world[dev], parentProps, text, p[1], p[2])])

\* The reconciler begins another top-level hydration attempt.  The latch is a
\* binding of the module scope that no function of the module assigns false
\* and that the module does not export, so the attempt begins with the latch as
\* the previous attempt left it.
StartHydrationAttempt_resetLatch ==
    /\ attempt < MaxAttempts
    /\ attempt' = attempt + 1
    /\ world' = [dev \in Builds |-> [world[dev] EXCEPT !.didWarnInvalidHydration = FALSE]]
    /\ UNCHANGED <<calls, last, enumerated, fibers, search>>

StartHydrationAttempt ==
    /\ attempt < MaxAttempts
    /\ attempt' = attempt + 1
    /\ UNCHANGED <<world, calls, last, enumerated, fibers, search>>

\* One call of the walker or the matcher, made in both builds.
Walk(op, args, result) ==
    /\ last' = [args |-> args, op |-> op, result |-> result]
    /\ UNCHANGED <<world, attempt, calls, enumerated, fibers, search>>

CallIsHydratableInstance ==
    \E instance \in ChildIds :
        Walk("isHydratableInstance", [instance |-> instance],
             [dev \in Builds |-> isHydratableInstance(world[dev].childNodes[instance])])

CallGetNextHydratableSibling ==
    \E instance \in ChildIds :
        Walk("getNextHydratableSibling", [instance |-> instance],
             [dev \in Builds |-> getNextHydratableSibling(world[dev], instance)])

CallGetFirstHydratableChild ==
    Walk("getFirstHydratableChild", [parent |-> "parent"],
         [dev \in Builds |-> getFirstHydratableChild(world[dev])])

CallCanHydrateInstance ==
    \E instance \in ChildIds, type \in MatchTypes :
        Walk("canHydrateInstance", [instance |-> instance, type |-> type],
             [dev \in Builds |-> canHydrateInstance(world[dev], instance, type)])

CallCanHydrateTextInstance ==
    \E instance \in ChildIds, text \in RenderedTexts :
        Walk("canHydrateTextInstance", [text |-> text, instance |-> instance],
             [dev \in Builds |-> canHydrateTextInstance(world[dev], instance, text)])

\* The arguments of getHydrationDiff: an index is -1, the position of a
\* hydratable child counted from 0, or a position past the last one.
DiffIndexes == (-1)..(Cardinality(HydratableIds) + 1)
InsertedNames == { None, Some("span") }
InsertedTexts == { None, Some(<<"LF">>), Some(EmptyText) }

CallGetHydrationDiff ==
    \E childInstanceDeletedIndex \in DiffIndexes, childInstanceInsertedIndex \in DiffIndexes,
       insertedInstanceDisplayName \in InsertedNames, insertedText \in InsertedTexts :
        Walk("getHydrationDiff",
             [insertedInstanceDisplayName |-> insertedInstanceDisplayName,
              insertedText |-> insertedText,
              childInstanceDeletedIndex |-> childInstanceDeletedIndex,
              childInstanceInsertedIndex |-> childInstanceInsertedIndex],
             [dev \in Builds |-> getHydrationDiff(world[dev], childInstanceDeletedIndex,
                                     childInstanceInsertedIndex, insertedInstanceDisplayName,
                                     insertedText)])

\* The values handed to the printer.  A long string repeats a, b, c; one with
\* a line feed has it as the last character the printer keeps.
LongString(n) == [i \in 1..n |-> <<"a", "b", "c">>[(i % 3) + 1]]
LongStringWithLineFeed(n) == [LongString(n) EXCEPT ![PRINT_MAX_STRING_LENGTH] = "LF"]
ShortStrings ==
    { << >>, <<"a">>, <<"a", "LF">>, <<"TAB", "'">>, <<"NBSP", "\"">>, <<"EMDASH">>,
      <<"CR">>, <<"NUL", "b">>, <<" ", "a", " ">>, <<"<">> }
PrintStrings ==
    ShortStrings
    \cup { LongString(n) : n \in (PRINT_MAX_STRING_LENGTH - 1)..MaxStringLength }
    \cup { LongStringWithLineFeed(n) : n \in PRINT_MAX_STRING_LENGTH..MaxStringLength }

KeyNames == <<"a", "b", "c", "x", "y", "z">>
PrintProps ==
    { Null, Obj(<< >>),
      Obj(<<Entry("title", Str(<<"a">>))>>),
      Obj(<<Entry("title", Str(<<"LF">>))>>),
      Obj(<<Getter("title")>>),
      Obj(<<Entry("children", Str(<<"a">>))>>),
      Obj(<<Entry("children", Arr(<<Number, Str(<<"a">>)>>))>>),
      Obj(<<Entry("children", Revoked)>>),
      Obj(<<Entry("a", Null), Entry("children", Null), Entry("b", Number),
            Entry("c", Str(<<"\"">>)), Getter("x")>>) }
ArrayItems == { Null, Str(<<"a">>), Number }
NestedValues ==
    { Revoked, Arr(<<Null, Null, Null, Null>>), Obj(<<Getter("a")>>),
      Elem(Str(Chars("span")), Undefined, Null), Str(<<"LF">>) }
PrintValues ==
    { Null, Undefined, Number, Revoked }
    \cup { Str(s) : s \in PrintStrings }
    \cup { Arr(items) : items \in SeqsUpTo(ArrayItems, MaxItems) }
    \cup UNION { { Arr(<<v>>), Arr(<<Null, v>>), Arr(<<Null, Null, Null, v>>), Arr(<<Arr(<<v>>)>>) } :
                   v \in NestedValues }
    \cup { Obj([i \in 1..k |-> IF i = t THEN Getter(KeyNames[i]) ELSE Entry(KeyNames[i], v)]) :
               <<k, t, v>> \in { x \in (0..MaxItems) \X (0..MaxItems) \X {Null, Revoked} :
                                  x[2] <= x[1] /\ x[1] <= Len(KeyNames) } }
    \cup { Elem(type, key, props) :
               <<type, key, props>> \in {Null, Str(Chars("span"))} \X {Undefined, Str(<<"a">>)} \X PrintProps }
    \cup { Func(Str(<<"a">>)), Func(Str(LongString(PRINT_MAX_STRING_LENGTH - 8))), Func(Undefined) }

CallPrintValue ==
    \E value \in PrintValues :
        Walk("printValue", [value |-> value], [dev \in Builds |-> printValue(value)])

CallPrintQuotedStringValue ==
    \E str \in PrintStrings, quote \in {"'", "\""} :
        Walk("printQuotedStringValue", [str |-> str, quote |-> quote],
             [dev \in Builds |-> printQuotedStringValue(str, quote)])

CallPrintElementOrText ==
    \E instanceDisplayName \in {Null, Str(Chars("div"))}, instanceProps \in PrintProps,
       instanceTextOrHTML \in {Null} \cup { Str(s) : s \in ShortStrings },
       printElementMode \in {PRINT_ELEMENT_MODE_DEFAULT, PRINT_ELEMENT_MODE_OPENING_TAG_ONLY},
       printChildrenMode \in {PRINT_CHILDREN_VALUE_MODE_DEFAULT, PRINT_CHILDREN_VALUE_MODE_RAW} :
        Walk("printElementOrText",
             [printChildrenMode |-> printChildrenMode, instanceDisplayName |-> instanceDisplayName,
              instanceProps |-> instanceProps, instanceTextOrHTML |-> instanceTextOrHTML,
              printElementMode |-> printElementMode],
             [dev \in Builds |-> printElementOrText(instanceDisplayName, instanceProps,
                                     instanceTextOrHTML, printElementMode, printChildrenMode)])

\* The children handed to printChildrenValue: arrays of strings, numbers and
\* elements, and values that are no array.
ChildItems == { Str(<<"a">>), Number, Elem(Str(Chars("span")), Undefined, Null) }
ChildrenValues ==
    { Null, Str(<<"a">>), Number }
    \cup { Arr(items) : items \in SeqsUpTo(ChildItems, MaxItems) }

CallPrintChildrenValue ==
    \E children \in ChildrenValues,
       printChildrenMode \in {PRINT_CHILDREN_VALUE_MODE_DEFAULT, PRINT_CHILDREN_VALUE_MODE_RAW} :
        Walk("printChildrenValue",
             [children |-> children, printChildrenMode |-> printChildrenMode],
             [dev \in Builds |-> printChildrenValue(children, printChildrenMode)])

\* The loop of getHydrationDiff and warnForDeletedHydratableInstance over the
\* parent's hydratable children, one iteration per step.
LoopStart ==
    /\ enumerated.pc = "idle"
    /\ enumerated' = [pc |-> "loop",
                      nextHydratableInstance |-> getFirstHydratableChild(world[TRUE]),
                      visited |-> << >>]
    /\ UNCHANGED <<world, attempt, calls, last, fibers, search>>

LoopStep ==
    /\ enumerated.pc = "loop"
    /\ enumerated.nextHydratableInstance # NULL
    /\ enumerated' = [enumerated EXCEPT
            !.visited = Append(@, enumerated.nextHydratableInstance),
            !.nextHydratableInstance =
                getNextHydratableSibling(world[TRUE], enumerated.nextHydratableInstance)]
    /\ UNCHANGED <<world, attempt, calls, last, fibers, search>>

LoopEnd ==
    /\ enumerated.pc = "loop"
    /\ enumerated.nextHydratableInstance = NULL
    /\ enumerated' = [enumerated EXCEPT !.pc = "done"]
    /\ UNCHANGED <<world, attempt, calls, last, fibers, search>>

Next ==
    \/ DidNotMatchHydratedContainerTextInstance
    \/ DidNotMatchHydratedTextInstance
    \/ DidNotMatchHydratedChildrenPropValue
    \/ DidNotMatchHydratedPropValue
    \/ DidNotMatchHydratedPropsHostInstanceHasExtraAttributes
    \/ DidNotHydrateContainerInstance
    \/ DidNotHydrateInstance
    \/ DidNotFindHydratableContainerInstance
    \/ DidNotFindHydratableContainerTextInstance
    \/ DidNotFindHydratableInstance
    \/ DidNotFindHydratableTextInstance
    \/ StartHydrationAttempt
    \/ CallIsHydratableInstance
    \/ CallGetNextHydratableSibling
    \/ CallGetFirstHydratableChild
    \/ CallCanHydrateInstance
    \/ CallCanHydrateTextInstance

Spec == Init /\ [][Next]_vars

\* The walker on larger trees, with the enumeration loop.
InitWalker == InitWith(SeqsUpTo(RenderedNodes, MaxWalkChildren))

NextWalker ==
    \/ CallIsHydratableInstance
    \/ CallGetNextHydratableSibling
    \/ CallGetFirstHydratableChild
    \/ LoopStart
    \/ LoopStep
    \/ LoopEnd

SpecWalker == InitWalker /\ [][NextWalker]_vars

\* The matcher on every candidate and every expected tag or text.
InitMatch == InitWith(SeqsUpTo(MatchNodes, MaxMatchChildren))

NextMatch ==
    \/ CallCanHydrateInstance
    \/ CallCanHydrateTextInstance

SpecMatch == InitMatch /\ [][NextMatch]_vars

\* getHydrationDiff on every tree and every pair of indexes.
InitDiff == InitWith(SeqsUpTo(RenderedNodes, MaxDiffChildren))

NextDiff ==
    \/ CallGetHydrationDiff
    \/ CallGetFirstHydratableChild

SpecDiff == InitDiff /\ [][NextDiff]_vars

\* The printer on every value.
InitPrint == InitWith({ << >> })

NextPrint ==
    \/ CallPrintValue
    \/ CallPrintQuotedStringValue
    \/ CallPrintElementOrText
    \/ CallPrintChildrenValue

SpecPrint == InitPrint /\ [][NextPrint]_vars

\* ----------------------------------------------------------- fiber trees

\* Fiber 1 is the root and parent[f] < f is the parent of fiber f > 1; the
\* fibers are numbered in depth-first order, so the next fiber is a child of
\* f or a later child of one of f's ancestors.
RECURSIVE IsAncestorOrSelf(_, _, _)
IsAncestorOrSelf(parent, a, f) ==
    IF a = f THEN TRUE
    ELSE IF f = 1 THEN FALSE
    ELSE IsAncestorOrSelf(parent, a, parent[f])

ParentVectors(n) ==
    { parent \in [2..n -> 1..(n - 1)] :
        \A f \in 2..n :
            /\ parent[f] < f
            /\ f > 2 => IsAncestorOrSelf(parent, parent[f], f - 1) }

ChildrenOf(parent, f) == { g \in DOMAIN parent : parent[g] = f }

Least(S) == CHOOSE f \in S : \A g \in S : f <= g

LaterSiblings(parent, f) ==
    IF f = 1 THEN { } ELSE { g \in ChildrenOf(parent, parent[f]) : g > f }

\* The fibers of the tree parent with the tags tag and the return pointers
\* return.
FiberTree(n, parent, tag, return) ==
    [f \in 1..n |->
        [tag |-> tag[f],
         child |-> IF ChildrenOf(parent, f) = { } THEN NULL ELSE Least(ChildrenOf(parent, f)),
         return |-> return[f],
         sibling |-> IF LaterSiblings(parent, f) = { } THEN NULL ELSE Least(LaterSiblings(parent, f))]]

\* The tags of a tree: the root is a HostRoot, a text has no child.
TagsOf(n, parent) ==
    { tag \in [1..n -> FiberTags \cup { HostRoot }] :
        /\ tag[1] = HostRoot
        /\ \A f \in 2..n :
              /\ tag[f] \in FiberTags
              /\ tag[f] = HostText => ChildrenOf(parent, f) = { } }

\* The return pointers as the reconciler sets them: the parent, null at the root.
ReturnsOf(n, parent) == [f \in 1..n |-> IF f = 1 THEN NULL ELSE parent[f]]

\* The call findHydrationWarningHostInstanceIndex(returnFiber, fiber) before
\* its first statement.  climbs is the parity of the iterations of the inner
\* loop made so far, which tells an iteration that leaves node as it was from
\* no iteration at all.
Called(returnFiber, fiber) ==
    [node |-> NULL, hydrationWarningHostInstanceIndex |-> 0, pc |-> "enter", visited |-> { },
     returnFiber |-> returnFiber, fiber |-> fiber, startNode |-> NULL, climbs |-> 0]

InitFiberWith(trees, returnFibers) ==
    /\ world = [dev \in Builds |-> NewWorld(dev, << >>)]
    /\ attempt = 1
    /\ calls = << >>
    /\ last = [op |-> "none"]
    /\ enumerated = Idle
    /\ fibers \in trees
    /\ \E returnFiber \in returnFibers, fiber \in DOMAIN fibers :
          search = Called(returnFiber, fiber)

\* Every tree of MaxFibers fibers with the return pointers of the reconciler;
\* returnFiber is the root or its first child, fiber is any fiber.
InitFiber ==
    InitFiberWith(
        UNION { { FiberTree(MaxFibers, parent, tag, ReturnsOf(MaxFibers, parent)) :
                    tag \in TagsOf(MaxFibers, parent) } :
                parent \in ParentVectors(MaxFibers) },
        { 1, 2 })

\* Every tree of MaxStaleFibers fibers with any value in every return pointer.
InitFiberStale ==
    InitFiberWith(
        UNION { { FiberTree(MaxStaleFibers, parent, tag, return) :
                    tag \in TagsOf(MaxStaleFibers, parent),
                    return \in [1..MaxStaleFibers -> 0..MaxStaleFibers] } :
                parent \in ParentVectors(MaxStaleFibers) },
        { 1, 2 })

\* const startNode = returnFiber.child; let node = startNode;
FinderEnter ==
    /\ search.pc = "enter"
    /\ search' = [search EXCEPT
            !.pc = "search",
            !.startNode = fibers[search.returnFiber].child,
            !.node = fibers[search.returnFiber].child,
            !.visited = @ \cup ({ fibers[search.returnFiber].child } \ { NULL })]
    /\ UNCHANGED <<world, attempt, calls, last, enumerated, fibers>>

\* The head of the outer loop fails: return hydrationWarningHostInstanceIndex.
FinderReturn ==
    /\ search.pc = "search"
    /\ search.node = NULL \/ search.node = search.fiber
    /\ search' = [search EXCEPT !.pc = "done"]
    /\ UNCHANGED <<world, attempt, calls, last, enumerated, fibers>>

\* The first statement of the outer loop's body: count a host fiber, pass a
\* portal, descend into any other fiber that has a child.
FinderVisit ==
    /\ search.pc = "search"
    /\ search.node # NULL /\ search.node # search.fiber
    /\ LET node == fibers[search.node]
       IN  IF node.tag = HostComponent \/ node.tag = HostText
           THEN /\ search' = [search EXCEPT
                        !.pc = "climb",
                        !.hydrationWarningHostInstanceIndex = @ + 1]
                /\ UNCHANGED fibers
           ELSE IF node.tag = HostPortal
           THEN /\ search' = [search EXCEPT !.pc = "climb"]
                /\ UNCHANGED fibers
           ELSE IF node.child # NULL
           THEN /\ fibers' = [fibers EXCEPT ![node.child].return = search.node]
                /\ search' = [search EXCEPT
                        !.node = node.child,
                        !.visited = @ \cup { node.child }]
           ELSE /\ search' = [search EXCEPT !.pc = "climb"]
                /\ UNCHANGED fibers
    /\ UNCHANGED <<world, attempt, calls, last, enumerated>>

\* The inner loop, one test of its head and one iteration: leave the search,
\* climb to node.return, or go on to the sibling.
FinderClimb ==
    /\ search.pc = "climb"
    /\ LET node == fibers[search.node]
       IN  IF node.sibling = NULL
           THEN IF node.return = NULL \/ node.return = search.startNode
                THEN search' = [search EXCEPT !.pc = "done"]
                ELSE search' = [search EXCEPT
                        !.node = node.return,
                        !.visited = @ \cup { node.return },
                        !.climbs = 1 - @]
           ELSE search' = [search EXCEPT !.pc = "sibling"]
    /\ UNCHANGED <<world, attempt, calls, last, enumerated, fibers>>

\* node.sibling.return = node.return; node = node.sibling;
FinderSibling ==
    /\ search.pc = "sibling"
    /\ LET node == fibers[search.node]
       IN  /\ fibers' = [fibers EXCEPT ![node.sibling].return = node.return]
           /\ search' = [search EXCEPT
                   !.pc = "search",
                   !.node = node.sibling,
                   !.visited = @ \cup { node.sibling }]
    /\ UNCHANGED <<world, attempt, calls, last, enumerated>>

NextFiber ==
    \/ FinderEnter
    \/ FinderReturn
    \/ FinderVisit
    \/ FinderClimb
    \/ FinderSibling

\* The search on every tree the reconciler can hand it.
SpecFiber == InitFiber /\ [][NextFiber]_vars

\* The search on trees with stale return pointers; a call that can take a step
\* takes it.
SpecFiberStale == InitFiberStale /\ [][NextFiber]_vars /\ WF_vars(NextFiber)


\* ------------------------------------------------------------------ claims

ReportOps ==
    { "didNotMatchHydratedContainerTextInstance", "didNotMatchHydratedTextInstance",
      "didNotMatchHydratedChildrenPropValue", "didNotMatchHydratedPropValue",
      "didNotMatchHydratedPropsHostInstanceHasExtraAttributes",
      "didNotHydrateContainerInstance", "didNotHydrateInstance",
      "didNotFindHydratableContainerInstance", "didNotFindHydratableContainerTextInstance",
      "didNotFindHydratableInstance", "didNotFindHydratableTextInstance" }

\* The entry points that compare an existing value with an expected one.
CompareOps ==
    { "didNotMatchHydratedContainerTextInstance", "didNotMatchHydratedTextInstance",
      "didNotMatchHydratedChildrenPropValue", "didNotMatchHydratedPropValue" }

MatchOps ==
    { "canHydrateInstance", "canHydrateTextInstance",
      "getNextHydratableSibling", "getFirstHydratableChild" }

\* The record of the most recent reporting call, when last is that call.
LastCall == calls[Len(calls)]

\* No reportable call before call i.
NoneReportableBefore(i) == \A j \in 1..(i - 1) : ~calls[j].reportable

\* C1: whatever reporting entry points are called and however often, each
\* build's warning sink has received at most one warning (no step of the model
\* resets the latch).
C1_AtMostOneWarning ==
    \A dev \in Builds : Len(world[dev].warnings) <= 1

\* Two reportable calls were made and the development build warned once.
C1_Witness ==
    /\ Len(calls) >= 2
    /\ calls[1].reportable /\ calls[2].reportable
    /\ Len(world[TRUE].warnings) = 1

\* C2: a call emits a warning exactly when it is the first reportable call of
\* the history in a build with diagnostics enabled; so the one warning emitted
\* belongs to the first reportable call, and no later call warns in its place.
C2_FirstReportableCallWarns ==
    \A dev \in Builds : \A i \in 1..Len(calls) :
        calls[i].emitted[dev] <=> (dev /\ calls[i].reportable /\ NoneReportableBefore(i))

\* A call that was not reportable was followed by a reportable one, which warned.
C2_Witness ==
    /\ Len(calls) >= 2
    /\ ~calls[1].reportable
    /\ calls[2].reportable /\ calls[2].emitted[TRUE]
    /\ world[TRUE].warnings # << >>

C4_SuppressedCallEmitsNothing ==
    (last.op \in ReportOps /\ last.args.suppress)
    => \A dev \in Builds : ~LastCall.emitted[dev] /\ ~LastCall.changed[dev]

\* A suppressed call made while the latch was still open.
C4_Witness ==
    /\ last.op = "didNotHydrateInstance"
    /\ last.args.suppress
    /\ ~world[TRUE].didWarnInvalidHydration

\* C5: in the build with __DEV__ false no entry point has any effect: no
\* warning reaches the sink, no diff is built, the latch stays false.
C5_ProductionBuildIsNoOp ==
    /\ world[FALSE].warnings = << >>
    /\ world[FALSE].diffs = 0
    /\ ~world[FALSE].didWarnInvalidHydration

\* A reportable call on which the development build warned and built a diff.
C5_Witness ==
    /\ Len(calls) >= 1
    /\ calls[1].reportable
    /\ world[TRUE].diffs = 1
    /\ world[FALSE].warnings = << >>

\* C6: a walker or matcher call returns the same result in the development
\* build, whatever its latch and whatever it has reported, as in the production
\* build, where nothing is ever reported.
C6_MatchingIgnoresDiagnostics ==
    last.op \in MatchOps => last.result[TRUE] = last.result[FALSE]

\* A sibling was found by the walker after the development build had warned.
C6_Witness ==
    /\ last.op = "getNextHydratableSibling"
    /\ last.result[TRUE] # NULL
    /\ world[TRUE].didWarnInvalidHydration
    /\ ~world[FALSE].didWarnInvalidHydration

\* C7: a text or attribute mismatch call whose existing and expected values
\* are equal after normalisation emits no warning.
C7_EqualAfterNormalizationEmitsNothing ==
    ( /\ last.op \in CompareOps
      /\ IF last.op = "didNotMatchHydratedPropValue"
         THEN comparePropValueForHydrationWarning(last.args.host, last.args.rendered)
         ELSE compareTextForHydrationWarning(last.args.host, last.args.rendered) )
    => \A dev \in Builds : ~LastCall.emitted[dev]

\* An attribute call with values that differ as written and are equal after
\* normalisation, not suppressed, made while the latch was open.
C7_Witness ==
    /\ last.op = "didNotMatchHydratedPropValue"
    /\ last.args.host # last.args.rendered
    /\ comparePropValueForHydrationWarning(last.args.host, last.args.rendered)
    /\ ~last.args.suppress
    /\ ~world[TRUE].didWarnInvalidHydration

\* C8: isHydratableInstance answers true exactly for element and text nodes,
\* and false for comments and every other kind of node.
C8_HydratableIffElementOrText ==
    last.op = "isHydratableInstance"
    => \A dev \in Builds :
          last.result[dev] <=> (Tree[last.args.instance].nodeType \in {ELEMENT_NODE, TEXT_NODE})

\* isHydratableInstance was asked about a comment and answered false.
C8_Witness ==
    /\ last.op = "isHydratableInstance"
    /\ Tree[last.args.instance].nodeType = COMMENT_NODE
    /\ ~last.result[TRUE]

\* C9: getNextHydratableSibling returns the nearest element or text node
\* strictly after its argument, and null exactly when there is none.
C9_NextSiblingIsNearestHydratable ==
    last.op = "getNextHydratableSibling"
    => \A dev \in Builds :
          LET after == { n \in HydratableIds : n > last.args.instance }
          IN  IF after = {}
              THEN last.result[dev] = NULL
              ELSE /\ last.result[dev] \in after
                   /\ \A n \in after : last.result[dev] <= n

\* The walker stepped over a node that is not hydratable to reach its result.
C9_Witness ==
    /\ last.op = "getNextHydratableSibling"
    /\ last.result[TRUE] > last.args.instance + 1

\* C10: getFirstHydratableChild returns the first element or text child, and
\* null exactly when there is none; the loop from it along
\* getNextHydratableSibling visits exactly the hydratable children, each once,
\* in child order.
C10_LoopVisitsHydratableChildrenInOrder ==
    /\ last.op = "getFirstHydratableChild"
       => \A dev \in Builds :
             IF HydratableIds = {}
             THEN last.result[dev] = NULL
             ELSE /\ last.result[dev] \in HydratableIds
                  /\ \A n \in HydratableIds : last.result[dev] <= n
    /\ enumerated.pc = "done"
       => /\ { enumerated.visited[k] : k \in 1..Len(enumerated.visited) } = HydratableIds
          /\ \A k \in 1..(Len(enumerated.visited) - 1) :
                enumerated.visited[k] < enumerated.visited[k + 1]

\* The loop ended on a tree that begins with a node that is not hydratable and
\* has two hydratable children with another such node between them.
C10_Witness ==
    /\ enumerated.pc = "done"
    /\ Len(enumerated.visited) = 2
    /\ enumerated.visited[1] > 1
    /\ enumerated.visited[2] > enumerated.visited[1] + 1

\* Two tag names are equal case-insensitively when they spell the same letters.
Letters(name) ==
    CASE name \in {"div", "DIV", "Div"} -> <<"d", "i", "v">>
      [] name \in {"span", "SPAN"} -> <<"s", "p", "a", "n">>
      [] OTHER -> <<name>>

\* C11: canHydrateInstance returns the candidate exactly when the candidate is
\* an element node whose tag name equals the expected tag case-insensitively,
\* and returns none otherwise, in both builds.
C11_CanHydrateInstanceIffSameTagIgnoringCase ==
    last.op = "canHydrateInstance" =>
        \A dev \in Builds :
            LET candidate == world[dev].childNodes[last.args.instance]
                matches == /\ candidate.nodeType = ELEMENT_NODE
                           /\ Letters(candidate.nodeName) = Letters(last.args.type)
            IN  last.result[dev] = IF matches THEN last.args.instance ELSE NULL

\* An element named DIV was accepted for the expected tag div.
C11_Witness ==
    /\ last.op = "canHydrateInstance"
    /\ Tree[last.args.instance] = ElementNode("DIV")
    /\ last.args.type = "div"
    /\ last.result[TRUE] = last.args.instance

\* C12: canHydrateTextInstance returns the candidate exactly when the expected
\* text is non-empty and the candidate is a text node; for the empty expected
\* text it returns none for every candidate, a text node with no content
\* included.
C12_CanHydrateTextInstanceIffNonEmptyAndText ==
    last.op = "canHydrateTextInstance" =>
        \A dev \in Builds :
            LET candidate == world[dev].childNodes[last.args.instance]
                matches == /\ Len(last.args.text) > 0
                           /\ candidate.nodeType = TEXT_NODE
            IN  last.result[dev] = IF matches THEN last.args.instance ELSE NULL

\* The empty expected text was refused on a text node with no content.
C12_Witness ==
    /\ last.op = "canHydrateTextInstance"
    /\ Tree[last.args.instance] = TextNode(EmptyText)
    /\ last.args.text = EmptyText
    /\ last.result[TRUE] = NULL

\* C13: a missing-text report whose expected text is empty emits no warning
\* and changes nothing, in either build, for every parent, index and replaced
\* flag and whatever the latch holds.
C13_EmptyExpectedTextEmitsNothing ==
    ( /\ last.op \in { "didNotFindHydratableContainerTextInstance",
                       "didNotFindHydratableTextInstance" }
      /\ last.args.text = EmptyText )
    => \A dev \in Builds : ~LastCall.emitted[dev] /\ ~LastCall.changed[dev]

\* The empty text was reported, unsuppressed, while the latch was still open.
C13_Witness ==
    /\ last.op = "didNotFindHydratableTextInstance"
    /\ last.args.text = EmptyText
    /\ ~last.args.suppress
    /\ ~world[TRUE].didWarnInvalidHydration

\* The warnings that end in a diff, and the diffs the build dev has emitted.
DiffFormats ==
    { "Did not expect server HTML to contain the text node %s in %s.%s",
      "Did not expect server HTML to contain a %s in %s.%s",
      "Expected server HTML to contain a matching %s in %s.%s",
      "Expected server HTML to contain a matching text node for %s in %s.%s" }

EmittedDiffs(dev) ==
    { world[dev].warnings[i].args[3] :
        i \in { j \in 1..Len(world[dev].warnings) :
                   world[dev].warnings[j].format \in DiffFormats } }

\* The lines of a diff that render a child of the parent, first to last.
ChildLines(diff) == SelectSeq(diff, LAMBDA line : "node" \in DOMAIN line)

\* C14: every emitted diff has, for each comment or other child of the parent,
\* an unchanged line at the child's position among its siblings: the child
\* lines of the diff are the lines of all the parent's children in sibling
\* order, and those of the children the walker skips are unchanged.
C14_SkippedChildrenAppearInDiff ==
    \A dev \in Builds : \A diff \in EmittedDiffs(dev) :
        /\ Len(ChildLines(diff)) = Len(world[dev].childNodes)
        /\ \A child \in 1..Len(world[dev].childNodes) :
              /\ ChildLines(diff)[child].node = child
              /\ ~isHydratableInstance(world[dev].childNodes[child])
                    => ChildLines(diff)[child].status = "unchanged"

\* Every answer the walker and the matcher can give on the tree of world w.
WalkerAnswers(w) ==
    [ text |-> [i \in 1..Len(w.childNodes) |->
                   [t \in RenderedTexts |-> canHydrateTextInstance(w, i, t)]],
      hydratable |-> [i \in 1..Len(w.childNodes) |-> isHydratableInstance(w.childNodes[i])],
      first |-> getFirstHydratableChild(w),
      next |-> [i \in 1..Len(w.childNodes) |-> getNextHydratableSibling(w, i)],
      element |-> [i \in 1..Len(w.childNodes) |->
                      [type \in MatchTypes |-> canHydrateInstance(w, i, type)]] ]

\* C15: no step, the construction of a diagnostic included, changes the
\* rendered tree: the child sequence and every node are as before in both
\* builds; and every answer of the walker and the matcher in the build that
\* constructs diagnostics is the answer of the build that constructs none.
C15_DiagnosticLeavesTreeUntouched ==
    /\ [][\A dev \in Builds : world'[dev].childNodes = world[dev].childNodes]_vars
    /\ [](WalkerAnswers(world[TRUE]) = WalkerAnswers(world[FALSE]))

\* The walker was called after a diff had been built over three children.
C15_Witness ==
    /\ world[TRUE].diffs = 1
    /\ Len(Tree) = 3
    /\ last.op = "getNextHydratableSibling"
    /\ last.result[TRUE] # NULL

\* The hydratable children of the parent in sibling order.
HydratableInOrder ==
    SelectSeq([n \in ChildIds |-> n], LAMBDA n : n \in HydratableIds)

\* The lines of a diff other than the added line.
RenderedLines(diff) == SelectSeq(diff, LAMBDA line : line.status # "added")

\* C20: the first line of the diff is the parent's opening tag and the last
\* its closing tag, both unchanged; the lines of the rendered tree between
\* them are the parent's hydratable children in sibling order, one line each;
\* the child at the removed-at index is the only removed line, and no line is
\* removed when that index is -1 or names no hydratable child.
C20_DiffListsHydratableChildrenAndMarksRemoved ==
    last.op = "getHydrationDiff" =>
        \A dev \in Builds :
            LET diff == last.result[dev]
                lines == RenderedLines(diff)
            IN  /\ diff[1] = [status |-> "unchanged", open |-> "parent"]
                /\ diff[Len(diff)] = [status |-> "unchanged", close |-> "parent"]
                /\ Len(diff) >= 2
                /\ Len(lines) = Len(HydratableInOrder) + 2
                /\ \A k \in 1..Len(HydratableInOrder) :
                      lines[k + 1] =
                          [node |-> HydratableInOrder[k],
                           status |-> IF k - 1 = last.args.childInstanceDeletedIndex
                                      THEN "removed" ELSE "unchanged"]

\* The first hydratable child, which stands behind a processing instruction,
\* was marked removed.
C20_Witness ==
    /\ last.op = "getHydrationDiff"
    /\ last.args.childInstanceDeletedIndex = 0
    /\ Len(Tree) = 2
    /\ Tree[1] = OtherNode
    /\ last.result[TRUE][2] = [node |-> 2, status |-> "removed"]

\* parts[1], parts[2], ... with a comma and a space between neighbours.
RECURSIVE JoinWithComma(_)
JoinWithComma(parts) ==
    IF parts = << >> THEN << >>
    ELSE IF Len(parts) = 1 THEN parts[1]
    ELSE parts[1] \o <<",", " ">> \o JoinWithComma(Tail(parts))

\* The first n characters of S, all of S when it is shorter.
Prefix(S, n) == [i \in 1..(IF Len(S) < n THEN Len(S) ELSE n) |-> S[i]]

\* C16: printValue of an array longer than three prints the first three items
\* and then a single ellipsis, and no item at index 3 or later; an array of at
\* most three items is printed whole, with no ellipsis of its own.
C16_ArrayPrintsFirstThreeThenEllipsis ==
    (last.op = "printValue" /\ last.args.value.kind = "array") =>
        \A dev \in Builds :
            LET items == last.args.value.items
                shown == [i \in 1..(IF Len(items) < 3 THEN Len(items) ELSE 3) |->
                             printValue(items[i]).out]
                parts == IF Len(items) > 3 THEN Append(shown, <<".", ".", ".">>) ELSE shown
            IN  last.result[dev] = Ok(<<"[">> \o JoinWithComma(parts) \o <<"]">>)

\* An array of four items was printed as [null, null, null, ...].
C16_Witness ==
    /\ last.op = "printValue"
    /\ last.args.value = Arr(<<Null, Null, Null, Str(<<"a">>)>>)
    /\ last.result[TRUE].out =
          <<"[">> \o Chars("null") \o Chars(", ") \o Chars("null") \o Chars(", ")
          \o Chars("null") \o Chars(", ") \o Chars("...") \o <<"]">>

\* C17: the printed form of a string S holds the first 100 characters of S, all
\* of S when it is shorter, followed by an ellipsis exactly when S is longer
\* than 100: between single quotes for printValue, escaped and between the
\* given quotes for printQuotedStringValue.
C17_StringClippedAtHundred ==
    /\ (last.op = "printValue" /\ last.args.value.kind = "string") =>
          \A dev \in Builds :
              LET S == last.args.value.chars
              IN  last.result[dev].out =
                      <<"'">> \o Prefix(S, 100)
                      \o (IF Len(S) > 100 THEN <<".", ".", ".">> ELSE << >>) \o <<"'">>
    /\ last.op = "printQuotedStringValue" =>
          \A dev \in Builds :
              LET S == last.args.str
              IN  last.result[dev] =
                      <<last.args.quote>>
                      \o escapeNonPrintableCharacters(Prefix(S, 100), last.args.quote)
                      \o (IF Len(S) > 100 THEN <<".", ".", ".">> ELSE << >>)
                      \o <<last.args.quote>>

\* A string of 101 characters was printed with an ellipsis behind its first 100.
C17_Witness ==
    /\ last.op = "printValue"
    /\ last.args.value.kind = "string"
    /\ Len(last.args.value.chars) = 101
    /\ Len(last.result[TRUE].out) = 105
    /\ last.result[TRUE].out[104] = "."

\* The characters outside the printable ASCII range.
NonPrintable == { "NUL", "TAB", "LF", "CR", "NBSP", "EMDASH" }

\* Whether the last call printed a string as a quoted string: printValue of a
\* string, or a text node of the diff, which printElementOrText prints with no
\* display name and no props.
PrintedQuotedString ==
    \/ last.op = "printValue" /\ last.args.value.kind = "string"
    \/ /\ last.op = "printElementOrText"
       /\ last.args.instanceDisplayName.kind = "null"
       /\ last.args.instanceProps.kind = "null"
       /\ last.args.instanceTextOrHTML.kind = "string"

\* C18: in a string printed as a quoted string no control or non-printable
\* character appears literally.
C18_NoLiteralControlCharacter ==
    PrintedQuotedString =>
        \A dev \in Builds : \A k \in 1..Len(last.result[dev].out) :
            last.result[dev].out[k] \notin NonPrintable

\* Whether the inspection of value itself raises: a revoked Proxy, an object
\* with a raising getter among its first three keys, an element with a key
\* whose props have a raising getter.
FailsItself(value) ==
    \/ value.kind = "revoked"
    \/ /\ value.kind = "object"
       /\ \E i \in 1..Len(value.entries) : i <= 3 /\ value.entries[i].throws
    \/ /\ value.kind = "element"
       /\ value.key.kind = "string"
       /\ value.props.kind = "object"
       /\ \E i \in 1..Len(value.props.entries) : value.props.entries[i].throws

\* C19: printValue returns a string for every value and never raises; a value
\* whose own inspection raises is printed as the ellipsis, and one nested in an
\* array is printed as the ellipsis in its place.
C19_PrintValueNeverRaises ==
    last.op = "printValue" =>
        \A dev \in Builds :
            LET value == last.args.value
                out == last.result[dev].out
            IN  /\ ~last.result[dev].threw
                /\ FailsItself(value) => out = <<".", ".", ".">>
                /\ ( /\ value.kind = "array"
                     /\ Len(value.items) = 1
                     /\ FailsItself(value.items[1]) )
                   => out = <<"[", ".", ".", ".", "]">>

\* A revoked Proxy two arrays deep was printed as [[...]].
C19_Witness ==
    /\ last.op = "printValue"
    /\ last.args.value = Arr(<<Arr(<<Revoked>>)>>)
    /\ last.result[TRUE] = Ok(<<"[", "[", ".", ".", ".", "]", "]">>)


\* The positions of the added lines of a diff.
AddedPositions(diff) == { i \in 1..Len(diff) : diff[i].status = "added" }

\* The expected node of the last diff is an element with a tag or a non-empty
\* text.
ExpectedNodeNonNull ==
    \/ last.args.insertedInstanceDisplayName # None
    \/ last.args.insertedText \notin { None, Some(EmptyText) }

\* The line of the hydratable child at position index (counted from 0).
ChildLinesOf(index) ==
    { [node |-> HydratableInOrder[index + 1], status |-> s] : s \in { "removed", "unchanged" } }

\* C21 as stated: with a non-null expected node the added line directly
\* follows the line of the child at the inserted-at index, and for an
\* inserted-at index of 0 it directly follows the parent's opening tag, before
\* any child line.
C21_AddedLineAfterChildOrAfterOpeningTag ==
    (last.op = "getHydrationDiff" /\ ExpectedNodeNonNull) =>
        \A dev \in Builds :
            LET diff == last.result[dev]
                at == last.args.childInstanceInsertedIndex
            IN  /\ at = 0 => AddedPositions(diff) = { 2 }
                /\ (at >= 1 /\ at < Len(HydratableInOrder)) =>
                      /\ AddedPositions(diff) = { at + 3 }
                      /\ diff[at + 2] \in ChildLinesOf(at)

\* C21 (amended): with a non-null expected node the added line directly
\* follows the line of the hydratable child at the inserted-at index whenever
\* that index names a hydratable child, 0 included; for every other index it
\* directly precedes the parent's closing tag, which is directly after the
\* opening tag only when the parent has no hydratable child.
C21_AddedLineAfterChildAtInsertedIndex ==
    (last.op = "getHydrationDiff" /\ ExpectedNodeNonNull) =>
        \A dev \in Builds :
            LET diff == last.result[dev]
                at == last.args.childInstanceInsertedIndex
                n == Len(HydratableInOrder)
            IN  IF at >= 0 /\ at < n
                THEN /\ AddedPositions(diff) = { at + 3 }
                     /\ diff[at + 2] \in ChildLinesOf(at)
                ELSE /\ AddedPositions(diff) = { Len(diff) - 1 }
                     /\ Len(diff) = n + 3
                     /\ n = 0 => AddedPositions(diff) = { 2 }

\* An element was inserted at index 0 of a parent with two hydratable children
\* and its line stands behind the first child's line.
C21_Witness ==
    /\ last.op = "getHydrationDiff"
    /\ last.args.childInstanceInsertedIndex = 0
    /\ last.args.insertedInstanceDisplayName = Some("span")
    /\ Len(HydratableInOrder) = 2
    /\ last.result[TRUE][2] \in ChildLinesOf(0)
    /\ last.result[TRUE][3].status = "added"


EmittedDeletionDiffs(dev) ==
    { world[dev].warnings[i].args[3] :
        i \in { j \in 1..Len(world[dev].warnings) :
                   world[dev].warnings[j].format \in
                       { "Did not expect server HTML to contain the text node %s in %s.%s",
                         "Did not expect server HTML to contain a %s in %s.%s" } } }

\* C23: a diff emitted for a deleted child, which is built with no tag and no
\* text and only the removed-at index, has no added line; and every added
\* line of every emitted diff is that of an element with a tag or of a
\* non-empty text.
C23_AddedLineOnlyForNonNullExpectedNode ==
    \A dev \in Builds :
        /\ \A diff \in EmittedDeletionDiffs(dev) : AddedPositions(diff) = { }
        /\ \A diff \in EmittedDiffs(dev) : \A i \in AddedPositions(diff) :
              \/ diff[i].tag \notin { None, Some("") }
              \/ diff[i].text \notin { None, Some(EmptyText) }

\* A deletion was reported on a parent with two or more hydratable children:
\* its diff has a removed line and no added one.
C23_Witness ==
    /\ EmittedDeletionDiffs(TRUE) # { }
    /\ Len(HydratableInOrder) >= 2
    /\ \A diff \in EmittedDeletionDiffs(TRUE) :
          /\ \E i \in 1..Len(diff) : diff[i].status = "removed"
          /\ AddedPositions(diff) = { }

C24_WitnessNoChild ==
    /\ last.op = "getHydrationDiff"
    /\ last.args.childInstanceDeletedIndex = -1
    /\ last.args.childInstanceInsertedIndex = 0
    /\ last.args.insertedInstanceDisplayName = Some("span")
    /\ Len(HydratableInOrder) = 0
    /\ Len(last.result[TRUE]) = 3
    /\ last.result[TRUE][2].status = "added"


\* The fibers the search is to pass when it starts at fiber f, in depth-first
\* order: f, the fibers below f if f is no host fiber and no portal, then
\* those of f's later siblings.
RECURSIVE SearchOrder(_)
SearchOrder(f) ==
    IF f = NULL THEN << >>
    ELSE <<f>>
         \o (IF fibers[f].tag \in { HostComponent, HostText, HostPortal }
             THEN << >> ELSE SearchOrder(fibers[f].child))
         \o SearchOrder(fibers[f].sibling)

\* The immediate host children of returnFiber: its nearest HostComponent and
\* HostText descendants through fibers that are neither host fibers nor portals.
ImmediateHostChildren ==
    SelectSeq(SearchOrder(fibers[search.returnFiber].child),
              LAMBDA f : fibers[f].tag \in { HostComponent, HostText })

\* fiber lies under returnFiber with no host fiber and no portal between them.
FiberIsReachable ==
    \E k \in 1..Len(SearchOrder(fibers[search.returnFiber].child)) :
        SearchOrder(fibers[search.returnFiber].child)[k] = search.fiber

\* The number of immediate host children of returnFiber that precede fiber.
HostChildrenBeforeFiber ==
    LET order == SearchOrder(fibers[search.returnFiber].child)
        at == CHOOSE k \in 1..Len(order) : order[k] = search.fiber
    IN  Cardinality({ k \in 1..(at - 1) : fibers[order[k]].tag \in { HostComponent, HostText } })

\* Every fiber below f or below one of f's later siblings, these included.
RECURSIVE FibersFrom(_)
FibersFrom(f) ==
    IF f = NULL THEN { }
    ELSE { f } \cup FibersFrom(fibers[f].child) \cup FibersFrom(fibers[f].sibling)

\* C25: when fiber lies under returnFiber with no host fiber and no portal
\* between them, the search returns the number of immediate host children of
\* returnFiber that precede fiber in depth-first order.
C25_IndexCountsHostChildrenBeforeFiber ==
    (search.pc = "done" /\ FiberIsReachable) =>
        search.hydrationWarningHostInstanceIndex = HostChildrenBeforeFiber

C27_SearchStaysUnderReturnFiber ==
    search.pc # "idle" =>
        /\ search.visited \subseteq
              { search.returnFiber } \cup FibersFrom(fibers[search.returnFiber].child)
        /\ search.hydrationWarningHostInstanceIndex <= Len(ImmediateHostChildren)


\* C28: in every state and in each build the latch is true exactly when a
\* warning has been emitted since the module was evaluated, the only time the
\* latch was false before; and no step takes the latch from true to false.
C28_LatchTrueIffWarned ==
    /\ [](\A dev \in Builds :
            world[dev].didWarnInvalidHydration <=> Len(world[dev].warnings) > 0)
    /\ [][\A dev \in Builds :
            world[dev].didWarnInvalidHydration => world'[dev].didWarnInvalidHydration]_vars

\* A call that reported nothing left the latch false, the next one warned and
\* set it.
C28_Witness ==
    /\ Len(calls) = 2
    /\ ~calls[1].emitted[TRUE] /\ calls[2].emitted[TRUE]
    /\ world[TRUE].didWarnInvalidHydration
    /\ Len(world[TRUE].warnings) = 1
    /\ ~world[FALSE].didWarnInvalidHydration

\* C29: a reporting call leaves the latch as it was when it is made in the
\* build without diagnostics, or when it is not reportable (suppression flag
\* set, values equal after normalisation, or expected text empty); so a
\* reportable call that only such calls precede still warns in the build
\* with diagnostics.
C29_SilentCallLeavesLatch ==
    /\ [][Len(calls') > Len(calls) =>
            /\ world'[FALSE].didWarnInvalidHydration = world[FALSE].didWarnInvalidHydration
            /\ ~calls'[Len(calls')].reportable =>
                  world'[TRUE].didWarnInvalidHydration = world[TRUE].didWarnInvalidHydration]_vars
    /\ [](\A i \in 1..Len(calls) :
            (calls[i].reportable /\ NoneReportableBefore(i)) => calls[i].emitted[TRUE])

\* In one attempt a call that was not reportable came first and left the latch
\* false in both builds, and the reportable call behind it warned.
C29_Witness ==
    /\ Len(calls) = 2
    /\ calls[1].attempt = calls[2].attempt
    /\ ~calls[1].reportable /\ ~calls[1].changed[TRUE] /\ ~calls[1].changed[FALSE]
    /\ calls[2].reportable /\ calls[2].emitted[TRUE]


\* C30: a children array is rendered as one curly-braced array exactly when
\* it is not empty and every item of it, the first included, is a string; any
\* other array is rendered as its children's renderings one after the other.
C30_ChildrenArrayCurlyIffAllStrings ==
    (last.op = "printChildrenValue" /\ last.args.children.kind = "array") =>
        \A dev \in Builds :
            LET items == last.args.children.items
            IN  last.result[dev] =
                    IF /\ items # << >>
                       /\ \A k \in 1..Len(items) : items[k].kind = "string"
                    THEN printCurlyValue(last.args.children)
                    ELSE printChildrenValueMap(items, last.args.printChildrenMode)

====
